---- MODULE Spec2Model ----
(***************************************************************************)
(* Model of the worker discovery engine of the Phala MCP server            *)
(* (src/unnamed/part_001): the module-level workerCache, the getWorkerList *)
(* tool handler with its over-fetch loop, per-key probes, TEE-type         *)
(* classification and filters.                                             *)
(*                                                                         *)
(* One getWorkerList call is a sequential process whose positions are the  *)
(* await points of the handler:                                            *)
(*   idle  - no call in progress                                           *)
(*   keys  - awaiting api.query.phalaRegistry.workers.keys()  (line 522)   *)
(*   loop  - at the head of `for (const key of workerKeys)`   (line 551)   *)
(*   done  - the handler has returned; `response` is what it returned      *)
(* The remote chain is the environment: the result of the enumeration and  *)
(* of every probe is chosen nondeterministically.                          *)
(*                                                                         *)
(* Beside that call the module models verifyAttestation, getWorkerInfo,    *)
(* initPhalaAPI with the module-level api and keyring, sendPHA and         *)
(* delegateStake, several getWorkerList calls in flight together, and the  *)
(* loop body with its two Promise.race timers, each under a specification  *)
(* of its own.                                                             *)
(***************************************************************************)
EXTENDS Integers, Sequences, FiniteSets, TLC

(***************************************************************************)
(* Program constants.                                                      *)
(***************************************************************************)
\* workerCache.TTL, milliseconds
TTL == 60000
\* Math.min(limit * 3, 30): the multiplier
OverFetchFactor == 3
\* Math.min(limit * 3, 30): the cap
OverFetchCap == 30

(***************************************************************************)
(* Bounds of the model.                                                    *)
(***************************************************************************)
\* limit is drawn from 1..MaxLimit in Spec
MaxLimit == 2
\* an enumeration returns at most MaxKeys keys in Spec
MaxKeys == 3
\* number of workers.keys() enumerations in one behaviour
MaxEnumerations == 2
\* the clock runs from StartTime to StartTime + MaxTicks * TTL
MaxTicks == 1
\* feature flags are drawn from 1..MaxFlag
MaxFlag == 4
\* a limit above OverFetchCap / OverFetchFactor, for the capped window
BigLimit == 11
\* size of the registry in SpecWindow
WindowKeys == 32
\* confidence levels are drawn from 0..MaxConfidence
MaxConfidence == 3
\* number of calls in flight at once in SpecConcurrent and SpecInit
MaxCallers == 2
\* number of ApiPromise.create calls in one behaviour of SpecInit
MaxCreations == 3
\* amounts of PHA are drawn from 1..MaxAmount in SpecSend
MaxAmount == 3
\* an enumeration returns 1..MaxRefreshKeys keys in SpecConcurrent
MaxRefreshKeys == 2

(***************************************************************************)
(* Values.                                                                 *)
(***************************************************************************)
\* Date.now() when the process starts: far beyond one TTL after the epoch
StartTime == TTL

\* Time that passes between two calls: just under one TTL, or one TTL
Elapsed == {TTL - 1, TTL}

Min(a, b) == IF a <= b THEN a ELSE b

\* Registry contents an enumeration may return: keys 1..k in ascending or
\* descending order (worker public keys are opaque, distinct identifiers).
Ascending(k) == [i \in 1..k |-> i]
Descending(k) == [i \in 1..k |-> k + 1 - i]
KeySeqs == {Ascending(k) : k \in 0..MaxKeys} \cup {Descending(MaxKeys)}

\* Failure messages of a rejected enumeration
ErrorMessages == {"keys() rejected"}

\* info.attestationMethod as toJSON() reports it; "None" is null / absent
AttestationMethods == {"Ias", "Dcap", "Root", "None"}
\* info.features (absent is the empty set, `info.features || []`)
FeatureSets == SUBSET (1..MaxFlag)
WorkerInfos == [attestationMethod : AttestationMethods, features : FeatureSets]

\* Worker infos the registry of Spec holds: classified by the attestation
\* method, by a feature flag, and not classified
Profiles ==
    { [attestationMethod |-> "Ias",  features |-> {}],
      [attestationMethod |-> "None", features |-> {3}],
      [attestationMethod |-> "None", features |-> {}] }

\* Outcome of Promise.race([workers(key), 2000 ms timer]) at line 564
InfoResults == {"ok", "empty", "timeout", "error"}
\* Outcomes with every probe failing or finding nothing
DegradedResults == {"empty", "timeout"}

\* Outcome of the worker state query at lines 572-584
StateResults == {"Ready", "WorkerIdle", "WorkerUnresponsive", "WorkerCoolingDown",
                 "empty", "timeout", "error", "noquery"}

\* State answers the registry of Spec gives: online, offline, and the two
\* rejections (SpecFilter runs the loop body on every state result)
SampledStates == {"Ready", "WorkerUnresponsive", "timeout", "error"}

\* teeType argument; "" is the absent (undefined) argument
TeeTypeArgs == {"", "Intel SGX"}

\* teeType arguments of SpecFilter
FilterTeeTypes == {"", "Intel SGX", "AMD SEV", "Unknown"}

\* Inputs of one run of the loop body: the info result, the worker info it
\* carries when it is "ok", the state result, and the two filters
FilterInputs == [r : InfoResults, info : WorkerInfos, s : StateResults,
                 onlineOnly : BOOLEAN, teeType : FilterTeeTypes]

(***************************************************************************)
(* State.                                                                  *)
(***************************************************************************)
VARIABLES
    workerCache,     \* [data, timestamp]; data is <<>> for null, <<keys>> otherwise
    now,             \* the clock, Date.now()
    pc,              \* position of the getWorkerList call
    args,            \* [limit, onlineOnly, teeType] of the call
    callNow,         \* const now            (line 515)
    workerKeys,      \* let workerKeys       (line 516)
    idx,             \* position of the for-of iterator in workerKeys
    workerList,      \* const workerList     (line 546)
    processedCount,  \* let processedCount   (line 547)
    response,        \* what the handler returned
    enumerations,    \* number of workers.keys() calls issued to the chain
    probes,          \* number of worker-info probes issued by the current call
    keySource,       \* where the current call's key set came from:
                     \* "none", "cache", "chain", or "failed" (line 522 rejected)
    clsInput,        \* classifier input  (SpecClassify)
    clsOutput,       \* classifier output (SpecClassify)
    clsAgain,        \* classifier output for the same input, computed again
    fltInput,        \* loop body input: probe results and filters (SpecFilter)
    fltEnd,          \* how the loop body ended for fltInput      (SpecFilter)
    fltRecord,       \* workerList after the loop body            (SpecFilter)
    vaPc,            \* position of the verifyAttestation call
    vaWorker,        \* workerPublicKey of the call
    vaPrimary,       \* what the attestation service answered
    vaError,         \* `error` of the outer catch: its message, "" if none
    vaOnChain,       \* how the on-chain fallback went, "none" if not entered
    vaLookups,       \* registry queries issued by the call
    vaResponse,      \* what the handler returned
    callers,         \* getWorkerList calls in flight together (SpecConcurrent):
                     \* for each, its position and the locals of lines 515-526
    probe,           \* the Promise.race the loop body awaits (SpecTimers): its
                     \* stage, the worker info in hand, how the last race settled
    wiCall,          \* the getWorkerInfo call: position, workerPublicKey, response
    api,             \* let api = null      (line 87): 0 is null, else the instance
    keyring,         \* let keyring = null  (line 88): 0 is null, else the instance
    created,         \* ApiPromise.create calls started, connections and keyrings made
    initCalls,       \* initPhalaAPI calls in flight: position, the instance
                     \* awaited, the instance returned
    txCall           \* the sendPHA / delegateStake call: position, arguments,
                     \* and how the handler's promise settled

vars == <<workerCache, now, pc, args, callNow, workerKeys, idx, workerList,
          processedCount, response, enumerations, probes, keySource, clsInput, clsOutput,
          clsAgain, fltInput, fltEnd, fltRecord,
          vaPc, vaWorker, vaPrimary, vaError, vaOnChain, vaLookups, vaResponse,
          callers, probe, wiCall, api, keyring, created, initCalls, txCall>>

callVars == <<args, callNow, workerKeys, idx, workerList, processedCount, response,
             probes, keySource>>
clsVars == <<clsInput, clsOutput, clsAgain>>
fltVars == <<fltInput, fltEnd, fltRecord>>
vaVars == <<vaPc, vaWorker, vaPrimary, vaError, vaOnChain, vaLookups, vaResponse>>
listVars == <<workerCache, now, pc, callVars, enumerations>>
\* state of the handlers modelled beside the sequential getWorkerList call
initVars == <<api, keyring, created, initCalls>>
otherVars == <<callers, probe, wiCall, initVars, txCall>>

\* the getWorkerList calls of SpecConcurrent
Callers == 1..MaxCallers
\* keys an enumeration of SpecConcurrent resolves with
RefreshKeys == {Ascending(k) : k \in 1..MaxRefreshKeys}
\* a call not yet made; stamp is workerCache.timestamp as read at line 518
NoCaller == [pc |-> "idle", callNow |-> 0, keys |-> <<>>, stamp |-> 0, source |-> "none"]

\* an initPhalaAPI call not yet made; creating is the instance whose
\* ApiPromise.create it awaits, got the instance it returned
NoInitCall == [pc |-> "idle", creating |-> 0, got |-> 0]

\* The two tools that sign and send an extrinsic, the text their catch
\* returns, and the Error their promise rejects with on ExtrinsicFailed
TxTools == {"sendPHA", "delegateStake"}
TxPrefix(tool) == IF tool = "sendPHA" THEN "Error sending PHA: " ELSE "Error delegating stake: "
TxFailedMessage(tool) == IF tool = "sendPHA" THEN "Transaction failed" ELSE "Delegation failed"
\* What is thrown between the entry of the handler and `return new Promise`:
\* no wallet in the environment, initPhalaAPI rejecting, and then the
\* paymentInfo query rejecting (sendPHA) or the staking pallet missing
\* (delegateStake)
EarlyFailures(tool) ==
    IF tool = "sendPHA"
    THEN {"Wallet not configured", "API connection failed", "RPC request failed"}
    ELSE {"Wallet not configured for staking", "API connection failed",
          "Staking module not available"}
\* What signAndSend rejects with
SignFailures == {"Invalid Transaction", "RPC request failed"}
\* no sendPHA / delegateStake call in progress; outcome is "returned" when the
\* handler's promise resolved with `text`, "rejected" when it rejected
NoTxCall == [pc |-> "idle", tool |-> "", target |-> 0, amount |-> 0,
             failed |-> FALSE, outcome |-> "none", text |-> <<>>]

\* How the registry queries of getWorkerInfo go: the worker is found and
\* every query resolves, the worker is absent, or a query rejects
WorkerInfoResults == {"found", "absent", "rejected"}
\* answers of the info query, and of the state query, that arrive in time
InfoAnswers == {"ok", "empty", "error"}
StateAnswers == {"Ready", "empty", "error"}

NoArgs == [limit |-> 0, onlineOnly |-> FALSE, teeType |-> ""]
NoResponse == [type |-> "none"]
\* no getWorkerInfo call in progress
NoWorkerInfoCall == [pc |-> "idle", worker |-> 0, response |-> NoResponse]
NoInfo == [attestationMethod |-> "None", features |-> {}]
\* no race pending; stage is "info" while line 564 awaits and "state" while
\* line 574 awaits; settled is "answer" or "timer" after a race
NoProbe == [stage |-> "none", info |-> NoInfo, settled |-> "none"]
NoFilterInput == [r |-> "empty", info |-> NoInfo, s |-> "empty",
                  onlineOnly |-> FALSE, teeType |-> ""]
NoReply == [kind |-> "none", verified |-> "undefined", confidenceLevel |-> 0,
            message |-> ""]
NoOnChain == [kind |-> "none", hasConfidence |-> FALSE, confidenceLevel |-> 0,
              message |-> ""]

\* What awaiting axios.post(.../verify) can give (lines 731-734):
\*   "data"     - a 2xx response with a body; verified is "true", "false", or
\*                "undefined" when the body has no verified field
\*   "nodata"   - a 2xx response whose data is null or undefined, so that
\*                reading response.data.verified throws a TypeError
\*   "rejected" - a network error or a non-2xx status: axios rejects
PrimaryErrors == {"Network Error", "Request failed with status code 500"}
PrimaryReplies ==
    [kind : {"data"}, verified : {"true", "false", "undefined"},
     confidenceLevel : 0..MaxConfidence, message : {""}]
    \cup [kind : {"nodata"}, verified : {"undefined"}, confidenceLevel : {0},
          message : {"Cannot read properties of undefined"}]
    \cup [kind : {"rejected"}, verified : {"undefined"}, confidenceLevel : {0},
          message : PrimaryErrors]

\* What the on-chain fallback can meet (lines 752-757):
\*   "apiFail"   - initPhalaAPI() rejects, no registry query is issued
\*   "queryFail" - api.query.phalaRegistry.workers(key) rejects
\*   "absent"    - workerInfo.isEmpty, the handler throws 'Worker not found'
\*   "found"     - the worker is registered; confidenceLevel may be absent
OnChainResults ==
    [kind : {"apiFail"}, hasConfidence : {FALSE}, confidenceLevel : {0},
     message : {"API connection failed"}]
    \cup [kind : {"queryFail"}, hasConfidence : {FALSE}, confidenceLevel : {0},
          message : {"RPC request failed"}]
    \cup [kind : {"absent"}, hasConfidence : {FALSE}, confidenceLevel : {0},
          message : {"Worker not found"}]
    \cup [kind : {"found"}, hasConfidence : {FALSE}, confidenceLevel : {0},
          message : {""}]
    \cup [kind : {"found"}, hasConfidence : {TRUE}, confidenceLevel : 0..MaxConfidence,
          message : {""}]

(***************************************************************************)
(* Pure steps of getWorkerList.                                            *)
(***************************************************************************)
\* Mutant of CacheValid: the age test written with <= instead of <
CacheValidInclusive(cache, t) == cache.data # <<>> /\ (t - cache.timestamp) <= TTL

\* workerCache.data && (now - workerCache.timestamp) < workerCache.TTL
CacheValid(cache, t) == cache.data # <<>> /\ (t - cache.timestamp) < TTL

\* the entry of the module as loaded: data null, timestamp 0
EmptyCache == [data |-> <<>>, timestamp |-> 0]

\* Mutant of StoreEntry: the assignment to workerCache.timestamp forgotten
StoreEntryKeepStamp(keys, t) == [data |-> <<keys>>, timestamp |-> workerCache.timestamp]

\* workerCache.data = workerKeys; workerCache.timestamp = now: two
\* assignments with no await between them, one step of the event loop
StoreEntry(keys, t) == [data |-> <<keys>>, timestamp |-> t]

\* Mutant of MaxToProcess: the cap of 30 forgotten
MaxToProcessUncapped(limit) == limit * OverFetchFactor

\* const maxToProcess = Math.min(limit * 3, 30)
MaxToProcess(limit) == Min(limit * OverFetchFactor, OverFetchCap)

\* Mutant of LoopBreaks: the break on workerList.length forgotten
LoopBreaksOnWindowOnly(count, shown, limit) == count >= MaxToProcess(limit)

\* the two break statements at the head of the loop body
LoopBreaks(count, shown, limit) == count >= MaxToProcess(limit) \/ shown >= limit

\* Mutant of WorkerStateOf: workerState declared without its initial value
WorkerStateOfNoDefault(s) ==
    IF s \in {"Ready", "WorkerIdle", "WorkerUnresponsive", "WorkerCoolingDown"}
    THEN s ELSE "undefined"

\* let workerState = 'Unknown', overwritten only by a non-empty state answer;
\* a timeout or an error of the state query is swallowed by the inner catch
WorkerStateOf(s) ==
    IF s \in {"Ready", "WorkerIdle", "WorkerUnresponsive", "WorkerCoolingDown"}
    THEN s ELSE "Unknown"

\* Mutant of PassesOnline: WorkerIdle not counted as online
PassesOnlineReadyOnly(onlineOnly, st) == ~(onlineOnly /\ st # "Ready")

\* if (onlineOnly && workerState !== 'Ready' && workerState !== 'WorkerIdle') continue
PassesOnline(onlineOnly, st) == ~(onlineOnly /\ st # "Ready" /\ st # "WorkerIdle")

\* Mutant of DetectTeeType: the attestation method and flags 3, 4 only
DetectTeeTypeMethodOnly(info) ==
    IF info.attestationMethod = "Ias" THEN "Intel SGX"
    ELSE IF info.attestationMethod = "Dcap" THEN "Intel TDX"
    ELSE IF 3 \in info.features THEN "AMD SEV"
    ELSE IF 4 \in info.features THEN "NVIDIA Confidential Computing"
    ELSE "Unknown"

\* Mutant of DetectTeeType: the feature flags 3 and 4 tested before the method
DetectTeeTypeFlagsFirst(info) ==
    IF 3 \in info.features THEN "AMD SEV"
    ELSE IF 4 \in info.features THEN "NVIDIA Confidential Computing"
    ELSE IF info.attestationMethod = "Ias" \/ 1 \in info.features THEN "Intel SGX"
    ELSE IF info.attestationMethod = "Dcap" \/ 2 \in info.features THEN "Intel TDX"
    ELSE "Unknown"

\* Mutant of DetectTeeType: detectedTeeType declared without its initial value
DetectTeeTypeNoDefault(info) ==
    IF info.attestationMethod = "Ias" \/ 1 \in info.features THEN "Intel SGX"
    ELSE IF info.attestationMethod = "Dcap" \/ 2 \in info.features THEN "Intel TDX"
    ELSE IF 3 \in info.features THEN "AMD SEV"
    ELSE IF 4 \in info.features THEN "NVIDIA Confidential Computing"
    ELSE "undefined"

\* the if / else-if chain that sets detectedTeeType
DetectTeeType(info) ==
    IF info.attestationMethod = "Ias" \/ 1 \in info.features THEN "Intel SGX"
    ELSE IF info.attestationMethod = "Dcap" \/ 2 \in info.features THEN "Intel TDX"
    ELSE IF 3 \in info.features THEN "AMD SEV"
    ELSE IF 4 \in info.features THEN "NVIDIA Confidential Computing"
    ELSE "Unknown"

\* Mutant of PassesTeeType: the exemption of 'Unknown' forgotten
PassesTeeTypeExact(teeType, detected) == ~(teeType # "" /\ detected # teeType)

\* if (teeType && detectedTeeType !== teeType && detectedTeeType !== 'Unknown') continue
PassesTeeType(teeType, detected) ==
    ~(teeType # "" /\ detected # teeType /\ detected # "Unknown")

\* the object pushed to workerList (the fields the filters and counters read)
WorkerRecord(key, info, st) ==
    [ publicKey         |-> key,
      attestationMethod |-> IF info.attestationMethod = "None" THEN "Unknown"
                            ELSE info.attestationMethod,
      features          |-> info.features,
      teeType           |-> DetectTeeType(info),
      state             |-> st ]

\* Mutant of Push: the record put at the front (unshift)
PushFront(list, rec) == <<rec>> \o list

\* workerList.push({...})
Push(list, rec) == Append(list, rec)

\* Mutant of CaughtPerKey: only the timer's rejection is caught per key
CaughtOnlyTimeout(r) == r = "timeout"

\* A rejection raised inside the per-key try block (the info query or its
\* 2000 ms timer) is caught by the per-key catch.
CaughtPerKey(r) == r \in {"timeout", "error"}

\* How one iteration of the loop body ends for info result r, worker info
\* `info` and state result s:
\*   "continue" - one of the three continue statements
\*   "push"     - the record is pushed and the body runs to its end
\*   "caught"   - the per-key catch ran and the body runs to its end
\*   "abort"    - the rejection leaves the loop for the handler's catch
IterationEnd(a, r, info, s) ==
    IF r \in {"timeout", "error"} THEN (IF CaughtPerKey(r) THEN "caught" ELSE "abort")
    ELSE IF r = "empty" THEN "continue"
    ELSE IF ~PassesOnline(a.onlineOnly, WorkerStateOf(s)) THEN "continue"
    ELSE IF ~PassesTeeType(a.teeType, DetectTeeType(info)) THEN "continue"
    ELSE "push"

\* Mutant of Counted: processedCount++ moved into the per-key catch
CountedInCatchOnly(end) == end = "caught"

\* processedCount++ is the last statement of the loop body: it runs when the
\* body runs to its end, not after a continue
Counted(end) == end \in {"push", "caught"}

\* filters: { onlineOnly, teeType: teeType || "all" }
Filters(a) == [onlineOnly |-> a.onlineOnly,
               teeType |-> IF a.teeType = "" THEN "all" ELSE a.teeType]

\* the return inside `if (workerKeys.length === 0)`
EmptyResponse(a) ==
    [type |-> "json",
     json |-> [totalWorkers |-> 0, showing |-> 0, filters |-> Filters(a),
               workers |-> <<>>, message |-> "No workers registered on the network"]]

\* the return after the loop
ListResponse(a, keys, list, count) ==
    [type |-> "json",
     json |-> [totalWorkers |-> Len(keys), showing |-> Len(list), processed |-> count,
               filters |-> Filters(a), workers |-> list]]

\* Mutant of ErrorResponse: a property the Error object does not have is read
ErrorResponseNoMessage(msg) ==
    [type |-> "error", text |-> <<"Error getting worker list: ", "undefined">>]

\* the return of the handler's catch
ErrorResponse(msg) ==
    [type |-> "error", text |-> <<"Error getting worker list: ", msg>>]

(***************************************************************************)
(* Pure steps of verifyAttestation.                                        *)
(***************************************************************************)
\* Mutant of PrimaryThrows: an answer that is not verified treated as a failure
PrimaryThrowsUnlessVerified(reply) ==
    reply.kind \in {"rejected", "nodata"} \/ reply.verified # "true"

\* The outer try block throws when axios rejects or when response.data is
\* null / undefined; a body without the verified field throws nothing.
PrimaryThrows(reply) == reply.kind \in {"rejected", "nodata"}

\* the return of the outer try block (attestationType, timestamp and details
\* are copied from response.data the same way as the two fields kept here)
PrimaryResponse(worker, reply) ==
    [type |-> "json",
     json |-> [worker |-> worker, verified |-> reply.verified,
               confidenceLevel |-> reply.confidenceLevel]]

\* Mutant of OnChainThrows: the isEmpty test forgotten
OnChainThrowsUnlessAbsent(res) == res.kind \in {"apiFail", "queryFail"}

\* The inner try block throws when initPhalaAPI or the registry query
\* rejects, and by `throw new Error("Worker not found")` when isEmpty.
OnChainThrows(res) == res.kind \in {"apiFail", "queryFail", "absent"}

\* Mutant of StoredConfidence: the `|| 0` forgotten (undefined shown as -1)
StoredConfidenceNoDefault(res) == IF res.hasConfidence THEN res.confidenceLevel ELSE -1

\* info.confidenceLevel || 0
StoredConfidence(res) == IF res.hasConfidence THEN res.confidenceLevel ELSE 0

\* the return of the inner try block
OnChainResponse(worker, res) ==
    [type |-> "json",
     json |-> [worker |-> worker, onChainVerified |-> TRUE,
               confidenceLevel |-> StoredConfidence(res),
               note |-> "Attestation verified on-chain"]]

\* Mutant of VerifyErrorResponse: the inner catch reports its own error
VerifyErrorResponseOnChain(error, onChainError) ==
    [type |-> "error", text |-> <<"Error verifying attestation: ", onChainError>>]

\* the return of the inner catch: `Error verifying attestation: ${error.message}`
\* with `error` the outer catch's binding, onChainError unused
VerifyErrorResponse(error, onChainError) ==
    [type |-> "error", text |-> <<"Error verifying attestation: ", error>>]

(***************************************************************************)
(* Initial state: the module has been loaded, no tool has been called.     *)
(***************************************************************************)
InitCall ==
    /\ pc = "idle"
    /\ args = NoArgs
    /\ callNow = 0
    /\ workerKeys = <<>>
    /\ idx = 1
    /\ workerList = <<>>
    /\ processedCount = 0
    /\ response = NoResponse
    /\ probes = 0
    /\ keySource = "none"

\* no loop body has been applied
InitFilter ==
    /\ fltInput = NoFilterInput
    /\ fltEnd = ""
    /\ fltRecord = <<>>

\* no verifyAttestation call is in progress
InitVerify ==
    /\ vaPc = "idle"
    /\ vaWorker = 0
    /\ vaPrimary = NoReply
    /\ vaError = ""
    /\ vaOnChain = NoOnChain
    /\ vaLookups = 0
    /\ vaResponse = NoResponse

\* no other handler has been called
InitOther ==
    /\ callers = [c \in Callers |-> NoCaller]
    /\ probe = NoProbe
    /\ wiCall = NoWorkerInfoCall
    /\ api = 0
    /\ keyring = 0
    /\ created = [started |-> 0, apis |-> 0, keyrings |-> 0]
    /\ initCalls = [c \in Callers |-> NoInitCall]
    /\ txCall = NoTxCall

Init ==
    /\ workerCache = [data |-> <<>>, timestamp |-> 0]
    /\ now = StartTime
    /\ enumerations = 0
    /\ InitCall
    /\ clsInput = NoInfo
    /\ clsOutput = ""
    /\ clsAgain = ""
    /\ InitFilter
    /\ InitVerify
    /\ InitOther

(***************************************************************************)
(* Actions.                                                                *)
(***************************************************************************)
\* Time passes between two calls. (Nothing reads the clock after line 515 of
\* a call, so time passing during a call is time passing after it.)
Tick(d) ==
    /\ pc = "idle"
    /\ now + d <= StartTime + MaxTicks * TTL
    /\ now' = now + d
    /\ UNCHANGED <<workerCache, pc, callVars, enumerations, clsVars, fltVars, vaVars,
                   otherVars>>

\* Lines 528-547: with the key sequence in hand, return the empty listing or
\* enter the loop.
WithKeys(a, keys) ==
    /\ workerKeys' = keys
    /\ idx' = 1
    /\ workerList' = <<>>
    /\ processedCount' = 0
    /\ probes' = 0
    /\ IF Len(keys) = 0
       THEN pc' = "done" /\ response' = EmptyResponse(a)
       ELSE pc' = "loop" /\ response' = NoResponse

\* Lines 510-522: the handler is called; it reads the clock and either takes
\* the cached keys or issues the enumeration and awaits it.
Call(limit, onlineOnly, teeType) ==
    /\ pc = "idle"
    /\ enumerations < MaxEnumerations
    /\ LET a == [limit |-> limit, onlineOnly |-> onlineOnly, teeType |-> teeType] IN
       /\ args' = a
       /\ callNow' = now
       /\ IF CacheValid(workerCache, now)
          THEN /\ WithKeys(a, workerCache.data[1])
               /\ keySource' = "cache"
               /\ UNCHANGED enumerations
          ELSE /\ pc' = "keys"
               /\ enumerations' = enumerations + 1
               /\ keySource' = "none"
               /\ UNCHANGED <<workerKeys, idx, workerList, processedCount, response, probes>>
    /\ UNCHANGED <<workerCache, now, clsVars, fltVars, vaVars, otherVars>>

\* Lines 522-526: the enumeration resolves with `keys`; the cache entry is
\* replaced and stamped with the time read at line 515.
KeysOk(keys) ==
    /\ pc = "keys"
    /\ workerCache' = StoreEntry(keys, callNow)
    /\ WithKeys(args, keys)
    /\ keySource' = "chain"
    /\ UNCHANGED <<now, args, callNow, enumerations, clsVars, fltVars, vaVars, otherVars>>

\* Mutant of KeysFail: the handler's catch also drops the stored entry
KeysFailDropsEntry(msg) ==
    /\ pc = "keys"
    /\ pc' = "done"
    /\ response' = ErrorResponse(msg)
    /\ keySource' = "failed"
    /\ workerCache' = EmptyCache
    /\ UNCHANGED <<now, args, callNow, workerKeys, idx, workerList,
                   processedCount, enumerations, probes, clsVars, fltVars, vaVars,
                   otherVars>>

\* Line 522 rejects: control passes to the handler's catch (lines 642-649).
KeysFail(msg) ==
    /\ pc = "keys"
    /\ pc' = "done"
    /\ response' = ErrorResponse(msg)
    /\ keySource' = "failed"
    /\ UNCHANGED <<workerCache, now, args, callNow, workerKeys, idx, workerList,
                   processedCount, enumerations, probes, clsVars, fltVars, vaVars, otherVars>>

\* Lines 551-625: one iteration of the loop body for the next key.
Iterate(results, infos, states) ==
    /\ pc = "loop"
    /\ idx <= Len(workerKeys)
    /\ ~LoopBreaks(processedCount, Len(workerList), args.limit)
    /\ \E r \in results, info \in infos, s \in states :
         LET end == IterationEnd(args, r, info, s) IN
         \* a probe that finds no worker has no info and makes no state query
         /\ r # "ok" => (info = (CHOOSE i \in infos : TRUE) /\ s = (CHOOSE x \in states : TRUE))
         /\ probes' = probes + 1
         /\ idx' = idx + 1
         /\ workerList' = IF end = "push"
                          THEN Push(workerList,
                                    WorkerRecord(workerKeys[idx], info, WorkerStateOf(s)))
                          ELSE workerList
         /\ processedCount' = IF Counted(end) THEN processedCount + 1 ELSE processedCount
         /\ IF end = "abort"
            THEN pc' = "done" /\ response' = ErrorResponse("Query timeout")
            ELSE pc' = "loop" /\ response' = response
    /\ UNCHANGED <<workerCache, now, args, callNow, workerKeys, enumerations, keySource,
                   clsVars, fltVars, vaVars, otherVars>>

\* Lines 551-553 and 627-641: the iterator is exhausted or a break is taken,
\* and the listing is returned.
Finish ==
    /\ pc = "loop"
    /\ idx > Len(workerKeys) \/ LoopBreaks(processedCount, Len(workerList), args.limit)
    /\ pc' = "done"
    /\ response' = ListResponse(args, workerKeys, workerList, processedCount)
    /\ UNCHANGED <<workerCache, now, args, callNow, workerKeys, idx, workerList,
                   processedCount, enumerations, probes, keySource, clsVars, fltVars, vaVars,
                   otherVars>>

\* The caller has taken the response; the call's locals are gone.
Ack ==
    /\ pc = "done"
    /\ pc' = "idle"
    /\ args' = NoArgs
    /\ callNow' = 0
    /\ workerKeys' = <<>>
    /\ idx' = 1
    /\ workerList' = <<>>
    /\ processedCount' = 0
    /\ response' = NoResponse
    /\ probes' = 0
    /\ keySource' = "none"
    /\ UNCHANGED <<workerCache, now, enumerations, clsVars, fltVars, vaVars, otherVars>>

\* Mutant of TimerArmed: the state query awaited without its timer
TimerArmedInfoOnly(stage) == stage = "info"

\* Each of the two races has its own setTimeout: 2000 ms beside the info
\* query (lines 560-562), 1000 ms beside the state query (line 576).
TimerArmed(stage) == stage \in {"info", "state"}

\* Lines 551-559: the loop takes the next key and issues the info query
\* and its timer.
StartProbe ==
    /\ pc = "loop"
    /\ probe.stage = "none"
    /\ idx <= Len(workerKeys)
    /\ ~LoopBreaks(processedCount, Len(workerList), args.limit)
    /\ probe' = [stage |-> "info", info |-> NoInfo, settled |-> "none"]
    /\ probes' = probes + 1
    /\ UNCHANGED <<workerCache, now, pc, args, callNow, workerKeys, idx, workerList,
                   processedCount, response, enumerations, keySource,
                   clsVars, fltVars, vaVars, callers, wiCall, initVars, txCall>>

\* Lines 566-625: the rest of the loop body once the races of this key have
\* settled with info result r, worker info `info` and state result s.
EndBody(r, info, s, how) ==
    LET end == IterationEnd(args, r, info, s) IN
    /\ probe' = [stage |-> "none", info |-> NoInfo, settled |-> how]
    /\ idx' = idx + 1
    /\ workerList' = IF end = "push"
                     THEN Push(workerList,
                               WorkerRecord(workerKeys[idx], info, WorkerStateOf(s)))
                     ELSE workerList
    /\ processedCount' = IF Counted(end) THEN processedCount + 1 ELSE processedCount
    /\ IF end = "abort"
       THEN pc' = "done" /\ response' = ErrorResponse("Query timeout")
       ELSE pc' = "loop" /\ response' = response
    /\ UNCHANGED <<workerCache, now, args, callNow, workerKeys, enumerations, probes,
                   keySource, clsVars, fltVars, vaVars, callers, wiCall, initVars, txCall>>

\* Line 564: the info query settles before its timer. A worker found goes on
\* to the state query and its timer (lines 572-577), or past them when the
\* chain has no workerState query; anything else ends the body.
InfoAnswer(r, info, hasStateQuery) ==
    /\ pc = "loop"
    /\ probe.stage = "info"
    /\ IF r = "ok" /\ hasStateQuery
       THEN /\ probe' = [stage |-> "state", info |-> info, settled |-> "answer"]
            /\ UNCHANGED <<listVars, clsVars, fltVars, vaVars, callers, wiCall, initVars, txCall>>
       ELSE EndBody(r, info, "noquery", "answer")

\* Lines 560-564: the 2000 ms timer settles the race; the rejection is caught
\* by the per-key catch.
InfoTimer ==
    /\ pc = "loop"
    /\ probe.stage = "info"
    /\ TimerArmed("info")
    /\ EndBody("timeout", NoInfo, "noquery", "timer")

\* Lines 574-580: the state query settles before its timer.
StateAnswer(s) ==
    /\ pc = "loop"
    /\ probe.stage = "state"
    /\ EndBody("ok", probe.info, s, "answer")

\* Lines 574-583: the 1000 ms timer settles the race; the rejection is
\* swallowed by the inner catch.
StateTimer ==
    /\ pc = "loop"
    /\ probe.stage = "state"
    /\ TimerArmed("state")
    /\ EndBody("ok", probe.info, "timeout", "timer")

\* Lines 122-126 of initPhalaAPI, up to its await: with api set the call
\* returns it, otherwise it starts ApiPromise.create and awaits it.
InitApiCall(c) ==
    /\ initCalls[c].pc = "idle"
    /\ IF api # 0
       THEN /\ initCalls' = [initCalls EXCEPT ![c] =
                                [pc |-> "returned", creating |-> 0, got |-> api]]
            /\ UNCHANGED created
       ELSE /\ created.started < MaxCreations
            /\ created' = [created EXCEPT !.started = @ + 1]
            /\ initCalls' = [initCalls EXCEPT ![c] =
                                [pc |-> "creating", creating |-> created.started + 1,
                                 got |-> 0]]
    /\ UNCHANGED <<listVars, clsVars, fltVars, vaVars, callers, probe, wiCall, api, keyring, txCall>>

\* Lines 126-180 after the await: the connection is made; the call assigns
\* api, makes a keyring, assigns it, and returns api.
InitApiCreated(c) ==
    /\ initCalls[c].pc = "creating"
    /\ api' = initCalls[c].creating
    /\ keyring' = initCalls[c].creating
    /\ created' = [created EXCEPT !.apis = @ + 1, !.keyrings = @ + 1]
    /\ initCalls' = [initCalls EXCEPT ![c].pc = "returned",
                                      ![c].got = initCalls[c].creating]
    /\ UNCHANGED <<listVars, clsVars, fltVars, vaVars, callers, probe, wiCall, txCall>>

\* Line 126 rejects: api stays as it is and the call rejects.
InitApiFail(c) ==
    /\ initCalls[c].pc = "creating"
    /\ initCalls' = [initCalls EXCEPT ![c].pc = "rejected"]
    /\ UNCHANGED <<listVars, clsVars, fltVars, vaVars, callers, probe, wiCall,
                   api, keyring, created, txCall>>

\* The tool handler that called initPhalaAPI has gone on.
InitApiAck(c) ==
    /\ initCalls[c].pc \in {"returned", "rejected"}
    /\ initCalls' = [initCalls EXCEPT ![c] = NoInitCall]
    /\ UNCHANGED <<listVars, clsVars, fltVars, vaVars, callers, probe, wiCall,
                   api, keyring, created, txCall>>

\* A throw or a rejected await is caught by the handler's try / catch while
\* the handler runs its own statements ("running"); after
\* `return new Promise(...)`, which is not awaited, the catch is out of reach.
CaughtByHandler(pos) == pos = "running"

\* How the handler's promise settles on a failure with message msg at
\* position pos: the text of the catch is returned, or the promise rejects.
FailureOutcome(call, pos, msg) ==
    IF CaughtByHandler(pos)
    THEN [call EXCEPT !.pc = "done", !.failed = TRUE, !.outcome = "returned",
                      !.text = <<TxPrefix(call.tool), msg>>]
    ELSE [call EXCEPT !.pc = "done", !.failed = TRUE, !.outcome = "rejected",
                      !.text = <<msg>>]

\* Lines 436-437, 1544-1545: sendPHA or delegateStake is called.
TxCall(tool, target, amount) ==
    /\ txCall.pc = "idle"
    /\ txCall' = [NoTxCall EXCEPT !.pc = "running", !.tool = tool, !.target = target,
                                  !.amount = amount]
    /\ UNCHANGED <<listVars, clsVars, fltVars, vaVars, callers, probe, wiCall, initVars>>

\* Lines 437-456, 1545-1561: a statement of the try block throws or an
\* awaited call rejects, before the extrinsic is sent.
TxThrows(msg) ==
    /\ txCall.pc = "running"
    /\ msg \in EarlyFailures(txCall.tool)
    /\ txCall' = FailureOutcome(txCall, "running", msg)
    /\ UNCHANGED <<listVars, clsVars, fltVars, vaVars, callers, probe, wiCall, initVars>>

\* Lines 458-459, 1563-1564: the handler returns the new Promise and
\* signAndSend is under way.
TxSubmit ==
    /\ txCall.pc = "running"
    /\ txCall' = [txCall EXCEPT !.pc = "submitted"]
    /\ UNCHANGED <<listVars, clsVars, fltVars, vaVars, callers, probe, wiCall, initVars>>

\* Lines 460-486, 1565-1590: the extrinsic is in a block; with an
\* ExtrinsicFailed event the callback calls reject, otherwise resolve.
TxInBlock(extrinsicFailed) ==
    /\ txCall.pc = "submitted"
    /\ txCall' = IF extrinsicFailed
                 THEN FailureOutcome(txCall, "submitted", TxFailedMessage(txCall.tool))
                 ELSE [txCall EXCEPT !.pc = "done", !.outcome = "returned",
                                     !.text = <<"success">>]
    /\ UNCHANGED <<listVars, clsVars, fltVars, vaVars, callers, probe, wiCall, initVars>>

\* Lines 487, 1591: signAndSend rejects, `.catch(reject)`.
TxSignRejects(msg) ==
    /\ txCall.pc = "submitted"
    /\ txCall' = FailureOutcome(txCall, "submitted", msg)
    /\ UNCHANGED <<listVars, clsVars, fltVars, vaVars, callers, probe, wiCall, initVars>>

\* The caller has seen the handler's promise settle.
TxAck ==
    /\ txCall.pc = "done"
    /\ txCall' = NoTxCall
    /\ UNCHANGED <<listVars, clsVars, fltVars, vaVars, callers, probe, wiCall, initVars>>

\* Lines 660-665 of getWorkerInfo: the handler is called and awaits the
\* registry.
GetWorkerInfoCall(worker) ==
    /\ wiCall.pc = "idle"
    /\ wiCall' = [pc |-> "query", worker |-> worker, response |-> NoResponse]
    /\ UNCHANGED <<listVars, clsVars, fltVars, vaVars, callers, probe, initVars, txCall>>

\* Lines 665-716 of getWorkerInfo: the queries settle and the handler
\* returns the worker's data or the error text of its catch.
GetWorkerInfoReply(res) ==
    /\ wiCall.pc = "query"
    /\ wiCall' = [wiCall EXCEPT
         !.pc = "done",
         !.response =
            IF res = "found"
            THEN [type |-> "json", json |-> [publicKey |-> wiCall.worker]]
            ELSE [type |-> "error",
                  text |-> <<"Error getting worker info: ",
                             IF res = "absent" THEN "Worker not found"
                             ELSE "RPC request failed">>]]
    /\ UNCHANGED <<listVars, clsVars, fltVars, vaVars, callers, probe, initVars, txCall>>

\* The caller has taken the response of getWorkerInfo.
GetWorkerInfoAck ==
    /\ wiCall.pc = "done"
    /\ wiCall' = NoWorkerInfoCall
    /\ UNCHANGED <<listVars, clsVars, fltVars, vaVars, callers, probe, initVars, txCall>>

\* Lines 515-522 of one of several calls in flight: the call reads the clock
\* and either takes the cached keys, on to the listing, or issues its own
\* enumeration and awaits it.
ConcCall(c) ==
    /\ callers[c].pc = "idle"
    /\ IF CacheValid(workerCache, now)
       THEN /\ callers' = [callers EXCEPT ![c] =
                              [pc |-> "listing", callNow |-> now,
                               keys |-> workerCache.data[1],
                               stamp |-> workerCache.timestamp, source |-> "cache"]]
            /\ UNCHANGED enumerations
       ELSE /\ callers' = [callers EXCEPT ![c] =
                              [pc |-> "keys", callNow |-> now, keys |-> <<>>,
                               stamp |-> workerCache.timestamp, source |-> "none"]]
            /\ enumerations' = enumerations + 1
    /\ UNCHANGED <<workerCache, now, pc, callVars, clsVars, fltVars, vaVars,
                   probe, wiCall, initVars, txCall>>

\* Lines 522-526 of call c: its enumeration resolves, and the entry is
\* replaced by its keys stamped with the time it read at line 515.
ConcKeysOk(c, keys) ==
    /\ callers[c].pc = "keys"
    /\ workerCache' = StoreEntry(keys, callers[c].callNow)
    /\ callers' = [callers EXCEPT ![c].pc = "listing", ![c].keys = keys,
                                  ![c].source = "chain"]
    /\ UNCHANGED <<now, pc, callVars, enumerations, clsVars, fltVars, vaVars,
                   probe, wiCall, initVars, txCall>>

\* Line 522 of call c rejects: on to the handler's catch.
ConcKeysFail(c) ==
    /\ callers[c].pc = "keys"
    /\ callers' = [callers EXCEPT ![c].pc = "failed", ![c].source = "failed"]
    /\ UNCHANGED <<workerCache, now, pc, callVars, enumerations, clsVars, fltVars, vaVars,
                   probe, wiCall, initVars, txCall>>

\* The classifier applied to one worker info.
Classify ==
    /\ clsOutput = ""
    /\ clsOutput' = DetectTeeType(clsInput)
    /\ UNCHANGED <<listVars, clsInput, clsAgain, fltVars, vaVars, otherVars>>

\* The classifier applied once more to the same worker info.
ClassifyAgain ==
    /\ clsOutput # ""
    /\ clsAgain = ""
    /\ clsAgain' = DetectTeeType(clsInput)
    /\ UNCHANGED <<listVars, clsInput, clsOutput, fltVars, vaVars, otherVars>>

\* Lines 555-624 once, on an empty workerList: probe, classify, filter, push.
ApplyBody ==
    /\ fltEnd = ""
    /\ LET a == [limit |-> 1, onlineOnly |-> fltInput.onlineOnly,
                 teeType |-> fltInput.teeType]
           end == IterationEnd(a, fltInput.r, fltInput.info, fltInput.s)
       IN /\ fltEnd' = end
          /\ fltRecord' = IF end = "push"
                           THEN Push(<<>>, WorkerRecord(1, fltInput.info,
                                                        WorkerStateOf(fltInput.s)))
                           ELSE <<>>
    /\ UNCHANGED <<listVars, clsVars, fltInput, vaVars, otherVars>>

\* Lines 728-734: verifyAttestation is called and awaits the attestation service.
VerifyCall(worker) ==
    /\ vaPc = "idle"
    /\ vaPc' = "primary"
    /\ vaWorker' = worker
    /\ UNCHANGED <<otherVars, listVars, clsVars, fltVars, vaPrimary, vaError, vaOnChain, vaLookups,
                   vaResponse>>

\* Lines 731-750: the attestation service has answered; the handler returns
\* the primary result or enters the outer catch.
PrimaryReply(reply) ==
    /\ vaPc = "primary"
    /\ vaPrimary' = reply
    /\ IF PrimaryThrows(reply)
       THEN /\ vaPc' = "fallback"
            /\ vaError' = reply.message
            /\ vaResponse' = vaResponse
       ELSE /\ vaPc' = "done"
            /\ vaError' = vaError
            /\ vaResponse' = PrimaryResponse(vaWorker, reply)
    /\ UNCHANGED <<otherVars, listVars, clsVars, fltVars, vaWorker, vaOnChain, vaLookups>>

\* Lines 751-779: the on-chain fallback runs to its return.
OnChain(res) ==
    /\ vaPc = "fallback"
    /\ vaPc' = "done"
    /\ vaOnChain' = res
    /\ vaLookups' = IF res.kind = "apiFail" THEN vaLookups ELSE vaLookups + 1
    /\ vaResponse' = IF OnChainThrows(res)
                      THEN VerifyErrorResponse(vaError, res.message)
                      ELSE OnChainResponse(vaWorker, res)
    /\ UNCHANGED <<otherVars, listVars, clsVars, fltVars, vaWorker, vaPrimary, vaError>>

\* The caller has taken the response of verifyAttestation.
VerifyAck ==
    /\ vaPc = "done"
    /\ vaPc' = "idle"
    /\ vaWorker' = 0
    /\ vaPrimary' = NoReply
    /\ vaError' = ""
    /\ vaOnChain' = NoOnChain
    /\ vaLookups' = 0
    /\ vaResponse' = NoResponse
    /\ UNCHANGED <<otherVars, listVars, clsVars, fltVars>>

(***************************************************************************)
(* Specifications.                                                         *)
(***************************************************************************)
Next ==
    \/ \E d \in Elapsed : Tick(d)
    \/ \E limit \in 1..MaxLimit, onlineOnly \in BOOLEAN, teeType \in TeeTypeArgs :
         Call(limit, onlineOnly, teeType)
    \/ \E keys \in KeySeqs : KeysOk(keys)
    \/ \E msg \in ErrorMessages : KeysFail(msg)
    \/ Iterate(InfoResults, Profiles, SampledStates)
    \/ Finish
    \/ Ack

Spec == Init /\ [][Next]_vars

\* The over-fetch window at both arms of min(3N, 30): limits 1, MaxLimit and
\* BigLimit over a registry of WindowKeys keys whose probes all fail or find
\* nothing.
NextWindow ==
    \/ \E limit \in {1, MaxLimit, BigLimit}, onlineOnly \in BOOLEAN, teeType \in TeeTypeArgs :
         Call(limit, onlineOnly, teeType)
    \/ KeysOk(Ascending(WindowKeys))
    \/ Iterate(DegradedResults, {NoInfo}, {"timeout"})
    \/ Finish
    \/ Ack

SpecWindow == Init /\ [][NextWindow]_vars

\* The classifier as a pure function over every worker info.
InitClassify ==
    /\ workerCache = [data |-> <<>>, timestamp |-> 0]
    /\ now = StartTime
    /\ enumerations = 0
    /\ InitCall
    /\ clsInput \in WorkerInfos
    /\ clsOutput = ""
    /\ clsAgain = ""
    /\ InitFilter
    /\ InitVerify
    /\ InitOther

NextClassify == Classify \/ ClassifyAgain

SpecClassify == InitClassify /\ [][NextClassify]_vars

\* The loop body as a function of its inputs.
InitFilterBody ==
    /\ workerCache = [data |-> <<>>, timestamp |-> 0]
    /\ now = StartTime
    /\ enumerations = 0
    /\ InitCall
    /\ clsInput = NoInfo
    /\ clsOutput = ""
    /\ clsAgain = ""
    /\ fltInput \in FilterInputs
    /\ fltEnd = ""
    /\ fltRecord = <<>>
    /\ InitVerify
    /\ InitOther

NextFilter == ApplyBody

SpecFilter == InitFilterBody /\ [][NextFilter]_vars

\* verifyAttestation calls, one at a time.
NextVerify ==
    \/ \E worker \in 1..MaxKeys : VerifyCall(worker)
    \/ \E reply \in PrimaryReplies : PrimaryReply(reply)
    \/ \E res \in OnChainResults : OnChain(res)
    \/ VerifyAck

SpecVerify == Init /\ [][NextVerify]_vars

\* Several getWorkerList calls in flight together, up to the point where each
\* has its key set; the clock runs while they wait.
NextConcurrent ==
    \/ \E d \in Elapsed : Tick(d)
    \/ \E c \in Callers : ConcCall(c)
    \/ \E c \in Callers, keys \in RefreshKeys : ConcKeysOk(c, keys)
    \/ \E c \in Callers : ConcKeysFail(c)

SpecConcurrent == Init /\ [][NextConcurrent]_vars

\* The loop with its races: the registry answers a query or stays silent,
\* the handler's own continuations and the timers always run.
NextTimers ==
    \/ \E limit \in 1..MaxLimit, onlineOnly \in BOOLEAN : Call(limit, onlineOnly, "")
    \/ KeysOk(Ascending(MaxKeys))
    \/ StartProbe
    \/ \E r \in InfoAnswers, hasStateQuery \in BOOLEAN : InfoAnswer(r, NoInfo, hasStateQuery)
    \/ InfoTimer
    \/ \E s \in StateAnswers : StateAnswer(s)
    \/ StateTimer
    \/ Finish
    \/ Ack

SpecTimers ==
    /\ Init
    /\ [][NextTimers]_vars
    /\ WF_vars(StartProbe)
    /\ WF_vars(InfoTimer)
    /\ WF_vars(StateTimer)
    /\ WF_vars(Finish)

\* Answers of the two verifiers with the confidence level left at 0
FrameReplies == {r \in PrimaryReplies : r.confidenceLevel = 0}
FrameOnChain == {r \in OnChainResults : r.confidenceLevel = 0}

\* getWorkerList, getWorkerInfo and verifyAttestation called in any order and
\* in flight together.
NextFrame ==
    \/ \E d \in Elapsed : Tick(d)
    \/ \E limit \in 1..MaxLimit : Call(limit, FALSE, "")
    \/ \E keys \in RefreshKeys : KeysOk(keys)
    \/ \E msg \in ErrorMessages : KeysFail(msg)
    \/ Iterate(DegradedResults, {NoInfo}, {"timeout"})
    \/ Finish
    \/ Ack
    \/ GetWorkerInfoCall(1)
    \/ \E res \in WorkerInfoResults : GetWorkerInfoReply(res)
    \/ GetWorkerInfoAck
    \/ VerifyCall(1)
    \/ \E reply \in FrameReplies : PrimaryReply(reply)
    \/ \E res \in FrameOnChain : OnChain(res)
    \/ VerifyAck

SpecFrame == Init /\ [][NextFrame]_vars

\* initPhalaAPI called by tool handlers in flight together.
NextInit ==
    \/ \E c \in Callers : InitApiCall(c)
    \/ \E c \in Callers : InitApiCreated(c)
    \/ \E c \in Callers : InitApiFail(c)
    \/ \E c \in Callers : InitApiAck(c)

SpecInit == Init /\ [][NextInit]_vars

\* sendPHA and delegateStake calls, one at a time.
NextSend ==
    \/ \E tool \in TxTools, target \in 1..MaxKeys, amount \in 1..MaxAmount :
         TxCall(tool, target, amount)
    \/ \E msg \in EarlyFailures("sendPHA") \cup EarlyFailures("delegateStake") :
         TxThrows(msg)
    \/ TxSubmit
    \/ \E extrinsicFailed \in BOOLEAN : TxInBlock(extrinsicFailed)
    \/ \E msg \in SignFailures : TxSignRejects(msg)
    \/ TxAck

SpecSend == Init /\ [][NextSend]_vars

(***************************************************************************)
(* Properties of getWorkerList.                                            *)
(***************************************************************************)
\* min(3N, 30), written out
WindowBound(n) == IF 3 * n <= 30 THEN 3 * n ELSE 30

\* the handler has returned a listing that reports the processed counter
ListingReturned ==
    pc = "done" /\ response.type = "json" /\ "processed" \in DOMAIN response.json

\* C1: for every limit N >= 1, registry content, probe outcome and filter,
\* the call never holds and never returns more than N records
\* (showing <= N and the workers array has at most N entries).
C1_ShowingAtMostLimit ==
    /\ pc \in {"loop", "done"} => Len(workerList) <= args.limit
    /\ (pc = "done" /\ response.type = "json") =>
          /\ response.json.showing <= args.limit
          /\ Len(response.json.workers) <= args.limit

\* C1 witness: a listing cut by the limit, with keys of the registry left over
C1_Witness ==
    /\ ListingReturned
    /\ args.limit = MaxLimit
    /\ response.json.showing = MaxLimit
    /\ idx <= Len(workerKeys)

\* C2: within one call the number of keys for which an info probe is issued
\* never exceeds min(3N, 30).
C2_ProbesWithinWindow == probes <= WindowBound(args.limit)

\* C3: at every point of the loop and in the returned response,
\* processed <= min(3N, 30).
C3_ProcessedWithinWindow ==
    /\ pc \in {"loop", "done"} => processedCount <= WindowBound(args.limit)
    /\ ListingReturned => response.json.processed <= WindowBound(args.limit)

\* C3 witness: limit above 10, the counter stopped at the cap of 30 with keys
\* of the registry left over
C3_Witness ==
    /\ ListingReturned
    /\ args.limit = BigLimit
    /\ response.json.processed = OverFetchCap
    /\ idx <= Len(workerKeys)

\* C4: processed >= shown, in the loop and in every response that reports them.
C4_ProcessedAtLeastShown ==
    /\ pc \in {"loop", "done"} => processedCount >= Len(workerList)
    /\ ListingReturned => response.json.processed >= response.json.showing

\* C4 witness: a listing with records and a larger processed counter
C4_Witness ==
    /\ ListingReturned
    /\ response.json.showing > 0
    /\ response.json.processed > response.json.showing

\* C5: the processed counter returned equals the number of keys the request
\* attempted, counting keys not found and keys rejected by a filter.
C5_ProcessedCountsAttempts == ListingReturned => response.json.processed = probes

\* C6: a call made while the stored entry is younger than TTL takes the
\* stored key sequence, leaves the entry alone and enumerates nothing; a call
\* made with no entry or an entry of age >= TTL issues exactly one
\* enumeration, and when it resolves the entry is replaced by the enumerated
\* keys stamped with the time of the call. Nothing else enumerates.
C6_CacheWithinTTL ==
    [][ /\ (pc = "idle" /\ pc' # "idle") =>
             IF workerCache.data # <<>> /\ now - workerCache.timestamp < TTL
             THEN /\ workerKeys' = workerCache.data[1]
                  /\ workerCache' = workerCache
                  /\ enumerations' = enumerations
                  /\ pc' # "keys"
             ELSE /\ enumerations' = enumerations + 1
                  /\ pc' = "keys"
        /\ (pc = "keys" /\ keySource' = "chain") =>
             /\ workerCache'.data = <<workerKeys'>>
             /\ workerCache'.timestamp = callNow
        /\ pc # "idle" => enumerations' = enumerations
        /\ pc # "keys" => workerCache' = workerCache
      ]_vars

\* C6 witness: a second call served from an entry of age TTL - 1 while the
\* chain has been enumerated once
C6_Witness ==
    /\ pc = "loop"
    /\ keySource = "cache"
    /\ enumerations = 1
    /\ callNow - workerCache.timestamp = TTL - 1

\* C7: if the enumeration fails while an entry is stored, the call serves the
\* listing from the stored keys instead of returning an error.
C7_StaleServedOnFailure ==
    (pc = "done" /\ keySource = "failed" /\ workerCache.data # <<>>) =>
        /\ response.type = "json"
        /\ response.json.totalWorkers = Len(workerCache.data[1])

\* C8: if the enumeration fails and no entry was ever stored, the call returns
\* the text 'Error getting worker list: ' followed by the failure message,
\* and no records.
C8_ErrorWithoutEntry ==
    (pc = "done" /\ keySource = "failed" /\ workerCache.data = <<>>) =>
        /\ response.type = "error"
        /\ response.text[1] = "Error getting worker list: "
        /\ response.text[2] \in ErrorMessages
        /\ workerList = <<>>

\* C8 witness: the first enumeration of the process has failed
C8_Witness ==
    /\ pc = "done"
    /\ keySource = "failed"
    /\ workerCache.data = <<>>
    /\ enumerations = 1

\* C9: whenever the key set was obtained (from the cache or from the chain)
\* the call returns a listing, never the error text, whatever the probes did;
\* a probed key leaves the loop running and accounts for at most one record
\* or one caught failure.
C9_ProbeFailuresNotFatal ==
    /\ (pc = "done" /\ keySource \in {"cache", "chain"}) => response.type = "json"
    /\ pc = "loop" => (response.type = "none" /\ processedCount <= probes)

\* C9 witness: a listing returned after at least one probe was caught failing
\* and every probed key failed or was skipped
C9_Witness ==
    /\ ListingReturned
    /\ keySource = "chain"
    /\ response.json.processed > 0
    /\ response.json.showing = 0

(***************************************************************************)
(* Properties of the classifier.                                           *)
(***************************************************************************)
\* The rule table of C10, first match wins
ReferenceCategory(info) ==
    CASE info.attestationMethod = "Ias"  -> "Intel SGX"
      [] info.attestationMethod = "Dcap" -> "Intel TDX"
      [] info.attestationMethod \notin {"Ias", "Dcap"} /\ 3 \in info.features -> "AMD SEV"
      [] info.attestationMethod \notin {"Ias", "Dcap"} /\ 3 \notin info.features
           /\ 4 \in info.features -> "NVIDIA Confidential Computing"
      [] OTHER -> "Unknown"

\* The rule table with flags 1 and 2, as disjoint conditions
FlagCategory(info) ==
    LET m == info.attestationMethod
        f == info.features
        sgx == m = "Ias" \/ 1 \in f
        tdx == ~sgx /\ (m = "Dcap" \/ 2 \in f)
        sev == ~sgx /\ ~tdx /\ 3 \in f
        nv  == ~sgx /\ ~tdx /\ ~sev /\ 4 \in f
    IN CASE sgx -> "Intel SGX"
         [] tdx -> "Intel TDX"
         [] sev -> "AMD SEV"
         [] nv  -> "NVIDIA Confidential Computing"
         [] OTHER -> "Unknown"

\* C10 as claimed: the category equals the rule table Ias -> Intel SGX;
\* Dcap -> Intel TDX; else flag 3 -> AMD SEV; else flag 4 -> NVIDIA; else
\* Unknown, flags 1 and 2 deciding nothing.
C10_ReferenceTable == clsOutput # "" => clsOutput = ReferenceCategory(clsInput)

\* C10 amended: Ias or flag 1 -> Intel SGX; else Dcap or flag 2 -> Intel TDX;
\* else flag 3 -> AMD SEV; else flag 4 -> NVIDIA; else Unknown.
C10_FlagTable == clsOutput # "" => clsOutput = FlagCategory(clsInput)

\* C10 witness: method Dcap with flag 1 has been classified Intel SGX
C10_Witness ==
    /\ clsInput.attestationMethod = "Dcap"
    /\ 1 \in clsInput.features
    /\ clsOutput = "Intel SGX"

\* C11: a worker whose attestationMethod is Ias is classified Intel SGX for
\* every set of feature flags, including sets that contain 3 and / or 4.
C11_IasIsSgx ==
    (clsOutput # "" /\ clsInput.attestationMethod = "Ias") => clsOutput = "Intel SGX"

\* C11 witness: method Ias with flags 3 and 4 set has been classified Intel SGX
C11_Witness ==
    /\ clsInput.attestationMethod = "Ias"
    /\ {3, 4} \subseteq clsInput.features
    /\ clsOutput = "Intel SGX"

\* the five categories
Categories == {"Intel SGX", "Intel TDX", "AMD SEV", "NVIDIA Confidential Computing",
               "Unknown"}

StateShown(res) ==
    CASE res = "Ready" -> "Ready"
      [] res = "WorkerIdle" -> "WorkerIdle"
      [] res = "WorkerUnresponsive" -> "WorkerUnresponsive"
      [] res = "WorkerCoolingDown" -> "WorkerCoolingDown"
      [] OTHER -> "Unknown"

\* the loop body has been applied to a worker whose info probe succeeded
ProbedOk == fltEnd # "" /\ fltInput.r = "ok"

\* C12: with a teeType filter set, a successfully probed worker whose
\* category is Unknown is never dropped by that filter: when it passes the
\* onlineOnly filter it is pushed.
C12_UnknownPassesTeeFilter ==
    ( /\ ProbedOk
      /\ fltInput.teeType # ""
      /\ FlagCategory(fltInput.info) = "Unknown"
      /\ (~fltInput.onlineOnly \/ StateShown(fltInput.s) \in {"Ready", "WorkerIdle"}) )
    => /\ fltEnd = "push"
       /\ Len(fltRecord) = 1
       /\ fltRecord[1].teeType = "Unknown"

\* C12 witness: teeType = 'Intel SGX', an unclassified worker, pushed
C12_Witness ==
    /\ ProbedOk
    /\ fltInput.teeType = "Intel SGX"
    /\ fltInput.onlineOnly
    /\ fltInput.info = [attestationMethod |-> "Root", features |-> {}]
    /\ fltEnd = "push"

\* C13: a successfully probed worker is pushed if and only if (onlineOnly is
\* false or its state is Ready or WorkerIdle) and (no teeType is given or its
\* category equals teeType or its category is Unknown).
C13_FilterIff ==
    ProbedOk =>
      ( fltEnd = "push" <=>
          /\ (~fltInput.onlineOnly \/ StateShown(fltInput.s) \in {"Ready", "WorkerIdle"})
          /\ \/ fltInput.teeType = ""
             \/ FlagCategory(fltInput.info) = fltInput.teeType
             \/ FlagCategory(fltInput.info) = "Unknown" )

\* C13 witness: onlineOnly with teeType = 'AMD SEV', an idle AMD SEV worker,
\* pushed
C13_Witness ==
    /\ ProbedOk
    /\ fltInput.onlineOnly
    /\ fltInput.teeType = "AMD SEV"
    /\ fltInput.s = "WorkerIdle"
    /\ fltInput.info = [attestationMethod |-> "None", features |-> {3}]
    /\ fltEnd = "push"
    /\ fltRecord[1].state = "WorkerIdle"

\* C25: if the info probe succeeds and the state probe times out, is
\* rejected or answers empty, the loop body neither aborts the listing nor
\* enters the per-key catch, and when onlineOnly is false and the category
\* filter passes the record is pushed with state 'Unknown'.
C25_StateFailureKeepsRecord ==
    (ProbedOk /\ fltInput.s \in {"timeout", "error", "empty"}) =>
        /\ fltEnd \in {"push", "continue"}
        /\ ( /\ ~fltInput.onlineOnly
             /\ \/ fltInput.teeType = ""
                \/ FlagCategory(fltInput.info) = fltInput.teeType
                \/ FlagCategory(fltInput.info) = "Unknown" )
           => /\ fltEnd = "push"
              /\ Len(fltRecord) = 1
              /\ fltRecord[1].state = "Unknown"

\* C25 witness: the state probe timed out for an Intel SGX worker listed
\* under teeType = 'Intel SGX', and the record was pushed
C25_Witness ==
    /\ ProbedOk
    /\ fltInput.s = "timeout"
    /\ ~fltInput.onlineOnly
    /\ fltInput.teeType = "Intel SGX"
    /\ fltInput.info = [attestationMethod |-> "Ias", features |-> {}]
    /\ fltEnd = "push"
    /\ fltRecord[1].state = "Unknown"

(***************************************************************************)
(* Properties of verifyAttestation.                                        *)
(***************************************************************************)
\* the attestation service call failed: axios rejected, or reading the
\* answer threw
PrimaryFailed == vaPrimary.kind \in {"rejected", "nodata"}

\* C14: if the primary verifier call succeeds, the handler returns the
\* primary's result (verified and confidenceLevel as the verifier reported
\* them, no on-chain marker) and the registry is not queried in the request.
C14_PrimaryResultTerminal ==
    (vaPc = "done" /\ vaPrimary.kind = "data") =>
        /\ vaResponse.type = "json"
        /\ vaResponse.json.worker = vaWorker
        /\ vaResponse.json.verified = vaPrimary.verified
        /\ vaResponse.json.confidenceLevel = vaPrimary.confidenceLevel
        /\ "onChainVerified" \notin DOMAIN vaResponse.json
        /\ vaOnChain.kind = "none"
        /\ vaLookups = 0

\* C14 witness: the verifier answered verified = false with confidence level
\* MaxConfidence and the handler has returned
C14_Witness ==
    /\ vaPc = "done"
    /\ vaPrimary.kind = "data"
    /\ vaPrimary.verified = "false"
    /\ vaPrimary.confidenceLevel = MaxConfidence
    /\ vaResponse.type = "json"

\* C15: if the primary call fails and the registry lookup finds the worker,
\* the handler returns a non-error result marked onChainVerified = true with
\* the confidenceLevel stored in the registry, 0 when the registry has none.
C15_FallbackVerified ==
    (vaPc = "done" /\ PrimaryFailed /\ vaOnChain.kind = "found") =>
        /\ vaResponse.type = "json"
        /\ vaResponse.json.worker = vaWorker
        /\ vaResponse.json.onChainVerified = TRUE
        /\ vaResponse.json.confidenceLevel =
              (IF vaOnChain.hasConfidence THEN vaOnChain.confidenceLevel ELSE 0)
        /\ vaLookups = 1

\* C15 witness: network error, worker found without a stored confidence level
C15_Witness ==
    /\ vaPc = "done"
    /\ vaPrimary.kind = "rejected"
    /\ vaOnChain.kind = "found"
    /\ ~vaOnChain.hasConfidence
    /\ vaResponse.type = "json"

\* C16: if the primary call fails and the fallback fails too, for any reason,
\* the error text carries the primary's message, never the fallback's.
C16_PrimaryFailureSurfaced ==
    (vaPc = "done" /\ PrimaryFailed /\ vaOnChain.kind \in {"apiFail", "queryFail", "absent"}) =>
        /\ vaResponse.type = "error"
        /\ vaResponse.text = <<"Error verifying attestation: ", vaPrimary.message>>
        /\ vaResponse.text[2] # vaOnChain.message

\* C16 witness: the verifier answered a non-2xx status and the registry query
\* was rejected
C16_Witness ==
    /\ vaPc = "done"
    /\ vaPrimary.message = "Request failed with status code 500"
    /\ vaOnChain.kind = "queryFail"
    /\ vaResponse.type = "error"

\* C17 as claimed: if the primary call fails and the worker is absent from
\* the registry, 'Worker not found' is the failure the caller receives.
C17_NotFoundSurfaced ==
    (vaPc = "done" /\ PrimaryFailed /\ vaOnChain.kind = "absent") =>
        /\ vaResponse.type = "error"
        /\ vaResponse.text[2] = "Worker not found"

\* C17 amended: if the primary call fails and the worker is absent from the
\* registry, the handler fails: 'Worker not found' is thrown inside the
\* fallback after one registry query, and the caller receives
\* 'Error verifying attestation: ' followed by the primary's message.
C17_NotFoundFails ==
    (vaPc = "done" /\ PrimaryFailed /\ vaOnChain.kind = "absent") =>
        /\ vaOnChain.message = "Worker not found"
        /\ vaLookups = 1
        /\ vaResponse.type = "error"
        /\ vaResponse.text[1] = "Error verifying attestation: "
        /\ vaResponse.text[2] = vaError
        /\ vaError \in PrimaryErrors \cup {"Cannot read properties of undefined"}

\* C17 witness: network error, then the worker is absent from the registry
C17_Witness ==
    /\ vaPc = "done"
    /\ vaPrimary.message = "Network Error"
    /\ vaOnChain.kind = "absent"
    /\ vaResponse.type = "error"

\* C18: every kind of primary failure, a 2xx body without the verified field
\* included, moves the request to the fallback; no malformed answer is
\* returned as a terminal primary result.
C18_MalformedGoesToFallback ==
    (vaPc = "done" /\ (PrimaryFailed \/ vaPrimary.verified = "undefined")) =>
        /\ vaOnChain.kind # "none"
        /\ vaResponse.type = "error" \/ "verified" \notin DOMAIN vaResponse.json

(***************************************************************************)
(* Properties of the listing.                                              *)
(***************************************************************************)
\* the position of key k in the key sequence
PositionIn(keys, k) == CHOOSE p \in 1..Len(keys) : keys[p] = k

\* the records of `list` carry keys of `keys`, in the order of `keys`
InOrderOf(keys, list) ==
    /\ \A i \in 1..Len(list) : \E p \in 1..Len(keys) : keys[p] = list[i].publicKey
    /\ \A i, j \in 1..Len(list) :
          i < j => PositionIn(keys, list[i].publicKey) < PositionIn(keys, list[j].publicKey)

\* C19: the records collected and returned are an order-preserving
\* subsequence of the cached key sequence.
C19_CacheOrderPreserved ==
    /\ pc \in {"loop", "done"} /\ keySource \in {"cache", "chain"} =>
          InOrderOf(workerCache.data[1], workerList)
    /\ ListingReturned => InOrderOf(workerCache.data[1], response.json.workers)

\* C19 witness: from the descending key sequence, the first and the third
\* key returned and the second skipped
C19_Witness ==
    /\ ListingReturned
    /\ workerCache.data[1] = Descending(MaxKeys)
    /\ Len(response.json.workers) = 2
    /\ response.json.workers[1].publicKey = MaxKeys
    /\ response.json.workers[2].publicKey = MaxKeys - 2

\* C20: every non-error response reports both counters, processed and
\* showing, the response for an empty key set included.
C20_CountersReported ==
    (pc = "done" /\ response.type = "json") =>
        {"processed", "showing"} \subseteq DOMAIN response.json

\* the call has returned and every key it probed gave a record: with no
\* filter set, each probe found the worker and none failed
AllProbesSucceeded ==
    /\ pc = "done"
    /\ response.type = "json"
    /\ ~args.onlineOnly
    /\ args.teeType = ""
    /\ probes = Len(workerList)

\* C21: with the cache empty, an enumeration of K keys, every probe
\* succeeding and no filter, getWorkerList(limit = N) returns totalWorkers = K
\* and showing = processed = min(N, K, min(3N, 30)).
C21_ScenarioCounts ==
    (AllProbesSucceeded /\ keySource = "chain") =>
        /\ response.json.totalWorkers = Len(workerKeys)
        /\ response.json.showing = Min(args.limit, Min(Len(workerKeys), WindowBound(args.limit)))
        /\ "processed" \in DOMAIN response.json
        /\ response.json.processed = response.json.showing

(***************************************************************************)
(* Properties of concurrent getWorkerList calls.                           *)
(***************************************************************************)
\* call c awaits its own enumeration
Refreshing(c) == callers[c].pc = "keys"

\* call w has finished an enumeration
Finished(w) == callers[w].pc = "listing" /\ callers[w].source = "chain"

\* C23: calls that arrive while a refresh is in flight do not start their
\* own enumeration: at most one enumeration is in flight at any time.
C23_RefreshShared == Cardinality({c \in Callers : Refreshing(c)}) <= 1

\* C24: under every interleaving the cache slot holds nothing or the key
\* sequence of one finished enumeration with the timestamp of the call that
\* made it; a call served from the cache has read such a pair; and the call
\* whose enumeration resolves last leaves its own pair in the slot.
C24_NoTornEntry ==
    /\ [](\/ workerCache.data = <<>>
          \/ \E w \in Callers :
                /\ Finished(w)
                /\ workerCache.data = <<callers[w].keys>>
                /\ workerCache.timestamp = callers[w].callNow)
    /\ [](\A c \in Callers :
            callers[c].source = "cache" =>
               \E w \in Callers :
                  /\ Finished(w)
                  /\ callers[c].keys = callers[w].keys
                  /\ callers[c].stamp = callers[w].callNow)
    /\ [][\A c \in Callers :
            (Refreshing(c) /\ callers'[c].source = "chain") =>
               /\ workerCache'.data = <<callers'[c].keys>>
               /\ workerCache'.timestamp = callers[c].callNow]_vars

\* C24 witness: every call has finished its own enumeration, two of them
\* with different keys and different call times, and the slot is filled
C24_Witness ==
    /\ \A c \in Callers : Finished(c)
    /\ \E c, d \in Callers :
          /\ callers[c].keys # callers[d].keys
          /\ callers[c].callNow # callers[d].callNow
    /\ workerCache.data # <<>>

\* C27: under every interleaving workerCache.timestamp never decreases.
C27_TimestampMonotone == [][workerCache'.timestamp >= workerCache.timestamp]_vars

(***************************************************************************)
(* Termination of the listing.                                             *)
(***************************************************************************)
\* C26: once the key set has been obtained the call returns, whichever of
\* the info and state queries never answer: the timer of each race settles
\* it and the loop goes on to the next key.
C26_ListingReturns == (pc = "loop") ~> (pc = "done")

\* C26 witness: the listing has returned after the state query of its last
\* key was settled by the timer, the record carrying state 'Unknown'
C26_Witness ==
    /\ ListingReturned
    /\ probe.settled = "timer"
    /\ response.json.showing >= 1
    /\ response.json.workers[response.json.showing].state = "Unknown"

(***************************************************************************)
(* Frame of the cache.                                                     *)
(***************************************************************************)
\* C28: workerCache changes only in the step in which the enumeration of a
\* getWorkerList call resolves: the step of a call that takes the cached
\* keys, the step of a failing enumeration, and every step of getWorkerInfo
\* and of verifyAttestation leave data and timestamp as they were.
C28_CacheFrame ==
    [][ /\ workerCache' # workerCache => (pc = "keys" /\ keySource' = "chain")
        /\ (pc = "idle" /\ keySource' = "cache") => workerCache' = workerCache
        /\ (pc = "keys" /\ keySource' = "failed") => workerCache' = workerCache
        /\ wiCall' # wiCall => workerCache' = workerCache
        /\ vaVars' # vaVars => workerCache' = workerCache
      ]_vars

\* C28 witness: with an entry stored, the enumeration of a later call has
\* failed, and getWorkerInfo and verifyAttestation have both returned
C28_Witness ==
    /\ workerCache.data # <<>>
    /\ pc = "done"
    /\ keySource = "failed"
    /\ wiCall.pc = "done"
    /\ vaPc = "done"

(***************************************************************************)
(* The shared API connection.                                              *)
(***************************************************************************)
\* C29: initPhalaAPI makes at most one connection and one keyring in the
\* life of the process, also when calls overlap, and every call that
\* returns has received the same instance.
C29_SingleInstance ==
    /\ created.apis <= 1
    /\ created.keyrings <= 1
    /\ \A c, d \in Callers :
          (initCalls[c].pc = "returned" /\ initCalls[d].pc = "returned") =>
             initCalls[c].got = initCalls[d].got

(***************************************************************************)
(* Failures of sendPHA and delegateStake.                                  *)
(***************************************************************************)
\* C30: every failure of sendPHA and delegateStake, an ExtrinsicFailed event
\* and a rejected signAndSend included, is returned as the text
\* 'Error sending PHA: ...' / 'Error delegating stake: ...'; the handler's
\* promise does not reject.
C30_FailuresReturned ==
    (txCall.pc = "done" /\ txCall.failed) =>
        /\ txCall.outcome = "returned"
        /\ txCall.text[1] = (IF txCall.tool = "sendPHA" THEN "Error sending PHA: "
                             ELSE "Error delegating stake: ")

====
